---- MODULE Spec2Model ----
(***************************************************************************)
(* Model of tools/j2objc/j2objc_header_map.py: the package-statement       *)
(* scanner _get_file_map_entry and the batch pipeline of main              *)
(* (loose source files, then source jars, then the sorted mapping file).   *)
(* Strings are TLA+ strings; a file is the sequence of its lines.          *)
(***************************************************************************)
EXTENDS Integers, Sequences, FiniteSets, TLC

\* ------------------------------------------------------------------------
\* Bounds of the model
\* ------------------------------------------------------------------------
MaxFiles == 2        \* longest --source_files list
MaxJars == 2         \* longest --source_jars list
MaxLines == 2        \* longest file drawn for the scanner specification

\* ------------------------------------------------------------------------
\* String helpers (Python str methods used by the script)
\* ------------------------------------------------------------------------
None == "<None>"

\* s[a-1:b] of Python, 1-based and inclusive here: out-of-range ends are clipped.
Slice(s, a, b) ==
  IF a > b \/ a > Len(s) \/ b < 1 THEN ""
  ELSE SubSeq(s, IF a < 1 THEN 1 ELSE a, IF b > Len(s) THEN Len(s) ELSE b)

Ch(s, i) == Slice(s, i, i)

Whitespace == {" ", "\t", "\n", "\r", "\f"}

isspace(c) == c \in Whitespace

WordChars ==
  {"a","b","c","d","e","f","g","h","i","j","k","l","m","n","o","p","q","r",
   "s","t","u","v","w","x","y","z","A","B","C","D","E","F","G","H","I","J",
   "K","L","M","N","O","P","Q","R","S","T","U","V","W","X","Y","Z","0","1",
   "2","3","4","5","6","7","8","9","_"}

startswith(s, p) == Len(s) >= Len(p) /\ Slice(s, 1, Len(p)) = p

endswith(s, p) == Len(s) >= Len(p) /\ Slice(s, Len(s) - Len(p) + 1, Len(s)) = p

\* str.strip(): drop the leading and the trailing run of whitespace.
RECURSIVE lstrip(_)
lstrip(s) == IF Len(s) > 0 /\ isspace(Ch(s, 1)) THEN lstrip(Tail(s)) ELSE s

RECURSIVE rstrip(_)
rstrip(s) ==
  IF Len(s) > 0 /\ isspace(Ch(s, Len(s))) THEN rstrip(Slice(s, 1, Len(s) - 1)) ELSE s

strip(s) == rstrip(lstrip(s))

\* str.rfind(c) for a one-character c, 1-based; 0 when c does not occur.
rfind(s, c) ==
  LET hits == {i \in 1..Len(s) : Ch(s, i) = c}
  IN IF hits = {} THEN 0 ELSE CHOOSE i \in hits : \A j \in hits : j <= i

\* str.split(','): the pieces between the commas, empty pieces included.
RECURSIVE split(_)
split(s) ==
  LET commas == {i \in 1..Len(s) : Ch(s, i) = ","}
  IN IF commas = {} THEN <<s>>
     ELSE LET i == CHOOSE k \in commas : \A j \in commas : k <= j
          IN <<Slice(s, 1, i - 1)>> \o split(Slice(s, i + 1, Len(s)))

\* ------------------------------------------------------------------------
\* _PACKAGE_RE = (package)\s+([\w\.]+);
\* ------------------------------------------------------------------------
\* Length of the longest run of characters satisfying the class from i on.
RECURSIVE SpaceRun(_, _)
SpaceRun(s, i) == IF i <= Len(s) /\ isspace(Ch(s, i)) THEN 1 + SpaceRun(s, i + 1) ELSE 0

RECURSIVE NameRun(_, _)
NameRun(s, i) ==
  IF i <= Len(s) /\ (Ch(s, i) \in WordChars \/ Ch(s, i) = ".")
  THEN 1 + NameRun(s, i + 1) ELSE 0

\* The pattern matched with group 1 starting at i.  \s and [\w\.] are
\* disjoint and neither contains ';', so the greedy runs are the only way
\* the pattern can match at i.
MatchAt(s, i) ==
  /\ Slice(s, i, i + 6) = "package"
  /\ SpaceRun(s, i + 7) >= 1
  /\ NameRun(s, i + 7 + SpaceRun(s, i + 7)) >= 1
  /\ Ch(s, i + 7 + SpaceRun(s, i + 7) + NameRun(s, i + 7 + SpaceRun(s, i + 7))) = ";"

Matches(s) == {i \in 1..Len(s) : MatchAt(s, i)}

\* Variant: the rightmost match instead of the leftmost.
PackageSearch_Rightmost(s) ==
  IF Matches(s) = {} THEN 0
  ELSE CHOOSE i \in Matches(s) : \A j \in Matches(s) : j <= i

\* _PACKAGE_RE.search(s).start(1): the leftmost match, 0 for no match.
PackageSearch(s) ==
  IF Matches(s) = {} THEN 0
  ELSE CHOOSE i \in Matches(s) : \A j \in Matches(s) : i <= j

\* package_statement.group(2) of the match that starts at i.
Group2(s, i) ==
  Slice(s, i + 7 + SpaceRun(s, i + 7),
            i + 6 + SpaceRun(s, i + 7) + NameRun(s, i + 7 + SpaceRun(s, i + 7)))

\* ------------------------------------------------------------------------
\* os.path.basename and os.path.splitext (posixpath)
\* ------------------------------------------------------------------------
\* Variant: the directory part is kept.
basename_WholePath(p) == p

basename(p) == Slice(p, rfind(p, "/") + 1, Len(p))

\* Index at which the extension starts, Len(p) + 1 when there is none:
\* the last dot, when it lies after the last separator and some character
\* of the file name before it is not a dot.
ExtIndex(p) ==
  LET sepIndex == rfind(p, "/")
      dotIndex == rfind(p, ".")
  IN IF dotIndex > sepIndex
        /\ \E k \in (sepIndex + 1)..(dotIndex - 1) : Ch(p, k) # "."
     THEN dotIndex ELSE Len(p) + 1

splitext0(p) == Slice(p, 1, ExtIndex(p) - 1)

\* ------------------------------------------------------------------------
\* _get_file_map_entry: the body of one iteration of the line loop
\* ------------------------------------------------------------------------
preceding_characters(stripped_line) ==
  Slice(stripped_line, 1, PackageSearch(stripped_line) - 1)

\* Variant: the */ alternative of the boundary test is missing.
LineAccepted_NoCommentClose(line) ==
  LET stripped_line == strip(line)
      pc0 == preceding_characters(stripped_line)
  IN /\ PackageSearch(stripped_line) # 0
     /\ \/ pc0 = ""
        \/ /\ ~ startswith(pc0, "//")
           /\ \/ isspace(Ch(pc0, Len(pc0)))
              \/ endswith(pc0, ";")

\* Variant: the test for a // comment line is missing.
LineAccepted_NoCommentSkip(line) ==
  LET stripped_line == strip(line)
      pc0 == preceding_characters(stripped_line)
  IN /\ PackageSearch(stripped_line) # 0
     /\ \/ pc0 = ""
        \/ isspace(Ch(pc0, Len(pc0)))
        \/ endswith(pc0, ";")
        \/ endswith(pc0, "*/")

\* Variant: the boundary test on the preceding characters is missing.
LineAccepted_NoBoundaryCheck(line) ==
  LET stripped_line == strip(line)
      pc0 == preceding_characters(stripped_line)
  IN /\ PackageSearch(stripped_line) # 0
     /\ \/ pc0 = ""
        \/ ~ startswith(pc0, "//")

\* TRUE when the iteration reaches the return statement, FALSE when it
\* falls through or executes one of the two continue statements.
LineAccepted(line) ==
  LET stripped_line == strip(line)
      pc0 == preceding_characters(stripped_line)
  IN /\ PackageSearch(stripped_line) # 0
     /\ \/ pc0 = ""
        \/ /\ ~ startswith(pc0, "//")
           /\ \/ isspace(Ch(pc0, Len(pc0)))
              \/ endswith(pc0, ";")
              \/ endswith(pc0, "*/")

\* The tuple returned for an accepted line.
MapEntry(java_file_path, line) ==
  LET stripped_line == strip(line)
      package_name == Group2(stripped_line, PackageSearch(stripped_line))
      class_name == splitext0(basename(java_file_path))
      header_file == splitext0(java_file_path) \o ".h"
  IN <<package_name \o "." \o class_name, header_file>>

\* ------------------------------------------------------------------------
\* dict assignment and sorted() over str keys
\* ------------------------------------------------------------------------
NoEntry == <<>>      \* the None returned by _get_file_map_entry

\* Variant: an existing key keeps its value.
DictSet_KeepFirst(d, k, v) ==
  [x \in (DOMAIN d) \cup {k} |-> IF x \in DOMAIN d THEN d[x] ELSE v]

\* class_to_header_map[k] = v
DictSet(d, k, v) == [x \in (DOMAIN d) \cup {k} |-> IF x = k THEN v ELSE d[x]]

EmptyDict == [x \in {} |-> ""]

\* The characters of the model's strings in ascending byte order.
Ascii ==
  " *-./0123456789;=ABCDEFGHIJKLMNOPQRSTUVWXYZ_abcdefghijklmnopqrstuvwxyz"

Ord(c) == CHOOSE i \in 1..Len(Ascii) : Ch(Ascii, i) = c

\* str.__lt__: the first differing character decides, a proper prefix is less.
StrLess(a, b) ==
  LET n == IF Len(a) < Len(b) THEN Len(a) ELSE Len(b)
      d == {i \in 1..n : Ch(a, i) # Ch(b, i)}
  IN IF d = {} THEN Len(a) < Len(b)
     ELSE LET i == CHOOSE k \in d : \A j \in d : k <= j
          IN Ord(Ch(a, i)) < Ord(Ch(b, i))

\* Variant: the keys in descending order.
RECURSIVE sorted_Descending(_)
sorted_Descending(S) ==
  IF S = {} THEN <<>>
  ELSE LET m == CHOOSE x \in S : \A y \in S \ {x} : StrLess(y, x)
       IN <<m>> \o sorted_Descending(S \ {m})

\* sorted(class_to_header_map): the keys in ascending order.
RECURSIVE sorted(_)
sorted(S) ==
  IF S = {} THEN <<>>
  ELSE LET m == CHOOSE x \in S : \A y \in S \ {x} : StrLess(x, y)
       IN <<m>> \o sorted(S \ {m})

\* The writes of the output loop, one per key.
RECURSIVE OutputWrites(_, _)
OutputWrites(keys, d) ==
  IF keys = <<>> THEN <<>>
  ELSE <<Head(keys) \o "=" \o d[Head(keys)] \o "\n">> \o OutputWrites(Tail(keys), d)

\* ------------------------------------------------------------------------
\* State of one run of main
\* ------------------------------------------------------------------------
VARIABLES
  args,                  \* parsed command line: source_files, source_jars, output_mapping_file
  fs,                    \* loose file path -> its lines
  archives,              \* jar path -> its members in namelist order, [name, lines]
  broken,                \* the input that raises on open or on read, if any
  pc,                    \* position in main
  source_files,          \* args.source_files.split(',')
  source_jars,           \* args.source_jars.split(',')
  fi,                    \* index of the current source_file
  ji,                    \* index of the current source_jar
  ei,                    \* index of the current jar_entry in jar.namelist()
  java_file_path,        \* argument of the running _get_file_map_entry
  java_file,             \* lines of the stream passed to it
  lineNo,                \* lines the running call has read
  entry,                 \* value the call returned
  class_to_header_map,   \* the accumulated dict
  openStreams,           \* content streams opened and not yet closed
  openJars,              \* ZipFile handles opened and not yet closed
  jarOpens,              \* per listed jar, how often it was opened
  output_mapping_file    \* [created, writes] of the output file

vars ==
  <<args, fs, archives, broken, pc, source_files, source_jars, fi, ji, ei,
    java_file_path, java_file, lineNo, entry, class_to_header_map,
    openStreams, openJars, jarOpens, output_mapping_file>>

Truthy(s) == s # None /\ s # ""

RECURSIVE Join(_)
Join(paths) ==
  IF Len(paths) = 0 THEN ""
  ELSE IF Len(paths) = 1 THEN paths[1]
  ELSE paths[1] \o "," \o Join(Tail(paths))

SeqsUpTo(S, n) == UNION {[1..k -> S] : k \in 0..n}

Range(f) == {f[i] : i \in DOMAIN f}

\* ------------------------------------------------------------------------
\* Inputs of the pipeline specification
\* ------------------------------------------------------------------------
FilePaths == {"a/B.java", "B.java"}

JarPaths == {"x.jar", "y.jar"}

FileContents ==
  { <<"package p;\n">>,
    <<"/* c */ package q;\n">>,
    <<"import x;\n", "class B {}\n">> }

Member(name, lines) == [name |-> name, lines |-> lines]

JarImage(jar) ==
  IF jar = "x.jar"
  THEN << Member("META-INF/M.MF", <<"package p;\n">>),
          Member("c/B.java", <<"  package p;\n">>),
          Member("d/B.java", <<"// package z;\n", "package p;\n">>) >>
  ELSE << Member("B.java", <<"package q;\n">>),
          Member("e/Z.java", <<"class Z {}\n">>),
          Member("A.java", <<"package p.a;\n">>) >>

Breakages(files, jars) ==
  {[kind |-> "none", target |-> ""]}
    \cup [kind : {"open", "read"}, target : Range(files) \cup Range(jars)]

\* ------------------------------------------------------------------------
\* Inputs of the scanner specification: one unit, many line shapes
\* ------------------------------------------------------------------------
ScanLines ==
  { "package a.b;", "  package a.b;\n", "package\ta_1.b2;\n", "package a.b",
    "package a.b ;", "class B {}\n", "\n",
    "// package a.b;", "//package a.b;", " \t// package a.b;\n",
    "//x; package a.b;",
    "/* package a.b;", "/*package a.b;", "/*/package a.b;",
    "*/ package a.b;", "*/package a.b;", "/* c */ package q;",
    "xpackage a.b;", "int x;package a.b;", "x // package a.b;",
    "xpackage a; package b.c;", "package a b; package c;" }

ScanPaths == {"a/B.java", "B.java", "a.b/C", ".java", "d/..x", "a/B.x.java"}

ScanMembers == {"pkg/Entry.java", "d/.java", "E.v1.java"}

ShortContents == {<<>>, <<"package a.b;">>, <<"//package a.b;", "  package a.b;\n">>}

ScanContents == {c \in SeqsUpTo(ScanLines, MaxLines) : c # <<>>}

\* ------------------------------------------------------------------------
\* Initial states
\* ------------------------------------------------------------------------
InitRun ==
  /\ pc = "start"
  /\ source_files = <<>>
  /\ source_jars = <<>>
  /\ fi = 1
  /\ ji = 1
  /\ ei = 1
  /\ java_file_path = ""
  /\ java_file = <<>>
  /\ lineNo = 0
  /\ entry = NoEntry
  /\ class_to_header_map = EmptyDict
  /\ openStreams = {}
  /\ openJars = {}
  /\ jarOpens = <<>>
  /\ output_mapping_file = [created |-> FALSE, writes |-> <<>>]

Init ==
  /\ \E files \in SeqsUpTo(FilePaths, MaxFiles), jars \in SeqsUpTo(JarPaths, MaxJars) :
       /\ \E sf \in (IF files = <<>> THEN {None, ""} ELSE {Join(files)}),
             sj \in (IF jars = <<>> THEN {None, ""} ELSE {Join(jars)}),
             out \in {None, "out.map"} :
            args = [source_files |-> sf, source_jars |-> sj, output_mapping_file |-> out]
       /\ fs \in [Range(files) -> FileContents]
       /\ archives = [j \in Range(jars) |-> JarImage(j)]
       /\ broken \in Breakages(files, jars)
  /\ InitRun

InitScan ==
  /\ \/ /\ \E p \in ScanPaths, c \in ScanContents :
             /\ p = "a/B.java" \/ c \in ShortContents
             /\ args = [source_files |-> p, source_jars |-> None,
                        output_mapping_file |-> "out.map"]
             /\ fs = [x \in {p} |-> c]
             /\ archives = [x \in {} |-> <<>>]
        /\ broken = [kind |-> "none", target |-> ""]
     \/ /\ \E n \in ScanMembers, c \in ScanContents :
             /\ n = "pkg/Entry.java" \/ c \in ShortContents
             /\ args = [source_files |-> "", source_jars |-> "s.jar",
                        output_mapping_file |-> "out.map"]
             /\ fs = [x \in {} |-> <<>>]
             /\ archives = [x \in {"s.jar"} |->
                              <<Member("notes.txt", <<"package a.b;">>), Member(n, c)>>]
        /\ broken = [kind |-> "none", target |-> ""]
     \/ /\ \E c \in ShortContents \ {<<>>} :
             /\ args = [source_files |-> "B.java", source_jars |-> "s.jar",
                        output_mapping_file |-> None]
             /\ fs = [x \in {"B.java"} |-> c]
             /\ archives = [x \in {"s.jar"} |-> <<Member("pkg/Entry.java", c)>>]
        /\ broken \in Breakages(<<"B.java">>, <<"s.jar">>)
  /\ InitRun

\* ------------------------------------------------------------------------
\* main, statement by statement
\* ------------------------------------------------------------------------
\* Variant: the exception is swallowed and the run goes on to the output.
Abort_Swallowed ==
  /\ pc' = "jars"
  /\ openStreams' = {}
  /\ openJars' = {}

\* Variant: leaving a with-block leaves the handle open.
Release_Leaks(handles, h) == handles

\* Exit of a with-block: the handle it opened is closed.
Release(handles, h) == handles \ {h}

\* An uncaught IOError / BadZipfile: every enclosing with-block releases its
\* handle while the exception unwinds, and the process ends.
Abort ==
  /\ pc' = "aborted"
  /\ openStreams' = {}
  /\ openJars' = {}

Raises(kind, target) == broken.kind = kind /\ broken.target = target

\* if args.source_files: source_files = args.source_files.split(',')
SplitSourceFiles ==
  /\ pc = "start"
  /\ source_files' = IF Truthy(args.source_files) THEN split(args.source_files) ELSE <<>>
  /\ fi' = 1
  /\ pc' = "files"
  /\ UNCHANGED <<args, fs, archives, broken, source_jars, ji, ei, java_file_path,
                 java_file, lineNo, entry, class_to_header_map, openStreams,
                 openJars, jarOpens, output_mapping_file>>

\* with open(source_file, 'r') as f: the call of _get_file_map_entry begins
OpenSourceFile ==
  /\ pc = "files"
  /\ fi <= Len(source_files)
  /\ ~ Raises("open", source_files[fi])
  /\ openStreams' = openStreams \cup {<<"file", fi>>}
  /\ java_file_path' = source_files[fi]
  /\ java_file' = fs[source_files[fi]]
  /\ lineNo' = 0
  /\ entry' = NoEntry
  /\ pc' = "scanFile"
  /\ UNCHANGED <<args, fs, archives, broken, source_files, source_jars, fi, ji, ei,
                 class_to_header_map, openJars, jarOpens, output_mapping_file>>

OpenSourceFileFails ==
  /\ pc = "files"
  /\ fi <= Len(source_files)
  /\ Raises("open", source_files[fi])
  /\ Abort
  /\ UNCHANGED <<args, fs, archives, broken, source_files, source_jars, fi, ji, ei,
                 java_file_path, java_file, lineNo, entry, class_to_header_map,
                 jarOpens, output_mapping_file>>

\* The input whose read failure would hit the running scan.
ScannedInput == IF pc = "scanFile" THEN source_files[fi] ELSE source_jars[ji]

\* Variant: an accepted line does not end the loop; the last one wins.
ScanLine_KeepsScanning ==
  /\ pc \in {"scanFile", "scanEntry"}
  /\ ~ Raises("read", ScannedInput)
  /\ IF lineNo < Len(java_file)
     THEN /\ lineNo' = lineNo + 1
          /\ entry' = IF LineAccepted(java_file[lineNo + 1])
                      THEN MapEntry(java_file_path, java_file[lineNo + 1])
                      ELSE entry
          /\ UNCHANGED pc
     ELSE /\ pc' = IF pc = "scanFile" THEN "fileReturned" ELSE "entryReturned"
          /\ UNCHANGED <<entry, lineNo>>
  /\ UNCHANGED <<args, fs, archives, broken, source_files, source_jars, fi, ji, ei,
                 java_file_path, java_file, class_to_header_map, openStreams,
                 openJars, jarOpens, output_mapping_file>>

\* One iteration of `for line in java_file`, or its exhaustion (return None).
ScanLine ==
  /\ pc \in {"scanFile", "scanEntry"}
  /\ ~ Raises("read", ScannedInput)
  /\ IF lineNo < Len(java_file)
     THEN /\ lineNo' = lineNo + 1
          /\ IF LineAccepted(java_file[lineNo + 1])
             THEN /\ entry' = MapEntry(java_file_path, java_file[lineNo + 1])
                  /\ pc' = IF pc = "scanFile" THEN "fileReturned" ELSE "entryReturned"
             ELSE UNCHANGED <<entry, pc>>
     ELSE /\ entry' = NoEntry
          /\ pc' = IF pc = "scanFile" THEN "fileReturned" ELSE "entryReturned"
          /\ UNCHANGED lineNo
  /\ UNCHANGED <<args, fs, archives, broken, source_files, source_jars, fi, ji, ei,
                 java_file_path, java_file, class_to_header_map, openStreams,
                 openJars, jarOpens, output_mapping_file>>

ReadFails ==
  /\ pc \in {"scanFile", "scanEntry"}
  /\ Raises("read", ScannedInput)
  /\ Abort
  /\ UNCHANGED <<args, fs, archives, broken, source_files, source_jars, fi, ji, ei,
                 java_file_path, java_file, lineNo, entry, class_to_header_map,
                 jarOpens, output_mapping_file>>

\* if entry: class_to_header_map[entry[0]] = entry[1]
StoreEntry(d, e) == IF e # NoEntry THEN DictSet(d, e[1], e[2]) ELSE d

\* The rest of the with-block of a loose file, and its exit.
FinishSourceFile ==
  /\ pc = "fileReturned"
  /\ class_to_header_map' = StoreEntry(class_to_header_map, entry)
  /\ openStreams' = Release(openStreams, <<"file", fi>>)
  /\ fi' = fi + 1
  /\ java_file_path' = ""
  /\ java_file' = <<>>
  /\ lineNo' = 0
  /\ entry' = NoEntry
  /\ pc' = "files"
  /\ UNCHANGED <<args, fs, archives, broken, source_files, source_jars, ji, ei,
                 openJars, jarOpens, output_mapping_file>>

\* if args.source_jars: source_jars = args.source_jars.split(',')
SplitSourceJars ==
  /\ pc = "files"
  /\ fi > Len(source_files)
  /\ source_jars' = IF Truthy(args.source_jars) THEN split(args.source_jars) ELSE <<>>
  /\ jarOpens' = [i \in 1..Len(source_jars') |-> 0]
  /\ ji' = 1
  /\ pc' = "jars"
  /\ UNCHANGED <<args, fs, archives, broken, source_files, fi, ei, java_file_path,
                 java_file, lineNo, entry, class_to_header_map, openStreams,
                 openJars, output_mapping_file>>

\* with zipfile.ZipFile(source_jar, 'r') as jar:
OpenSourceJar ==
  /\ pc = "jars"
  /\ ji <= Len(source_jars)
  /\ ~ Raises("open", source_jars[ji])
  /\ openJars' = openJars \cup {ji}
  /\ jarOpens' = [jarOpens EXCEPT ![ji] = @ + 1]
  /\ ei' = 1
  /\ pc' = "namelist"
  /\ UNCHANGED <<args, fs, archives, broken, source_files, source_jars, fi, ji,
                 java_file_path, java_file, lineNo, entry, class_to_header_map,
                 openStreams, output_mapping_file>>

OpenSourceJarFails ==
  /\ pc = "jars"
  /\ ji <= Len(source_jars)
  /\ Raises("open", source_jars[ji])
  /\ Abort
  /\ UNCHANGED <<args, fs, archives, broken, source_files, source_jars, fi, ji, ei,
                 java_file_path, java_file, lineNo, entry, class_to_header_map,
                 jarOpens, output_mapping_file>>

namelist(jar) == [i \in 1..Len(archives[jar]) |-> archives[jar][i].name]

\* for jar_entry in jar.namelist(): if jar_entry.endswith('.java'):
\*   with jar.open(jar_entry) as jar_entry_file:
NextJarEntry ==
  /\ pc = "namelist"
  /\ ei <= Len(namelist(source_jars[ji]))
  /\ IF endswith(namelist(source_jars[ji])[ei], ".java")
     THEN /\ openStreams' = openStreams \cup {<<"entry", ji, ei>>}
          /\ java_file_path' = namelist(source_jars[ji])[ei]
          /\ java_file' = archives[source_jars[ji]][ei].lines
          /\ lineNo' = 0
          /\ entry' = NoEntry
          /\ pc' = "scanEntry"
          /\ UNCHANGED ei
     ELSE /\ ei' = ei + 1
          /\ UNCHANGED <<openStreams, java_file_path, java_file, lineNo, entry, pc>>
  /\ UNCHANGED <<args, fs, archives, broken, source_files, source_jars, fi, ji,
                 class_to_header_map, openJars, jarOpens, output_mapping_file>>

\* The rest of the with-block of a jar entry, and its exit.
FinishJarEntry ==
  /\ pc = "entryReturned"
  /\ class_to_header_map' = StoreEntry(class_to_header_map, entry)
  /\ openStreams' = Release(openStreams, <<"entry", ji, ei>>)
  /\ ei' = ei + 1
  /\ java_file_path' = ""
  /\ java_file' = <<>>
  /\ lineNo' = 0
  /\ entry' = NoEntry
  /\ pc' = "namelist"
  /\ UNCHANGED <<args, fs, archives, broken, source_files, source_jars, fi, ji,
                 openJars, jarOpens, output_mapping_file>>

\* The namelist is exhausted: the with-block of the jar exits.
CloseSourceJar ==
  /\ pc = "namelist"
  /\ ei > Len(namelist(source_jars[ji]))
  /\ openJars' = Release(openJars, ji)
  /\ ji' = ji + 1
  /\ ei' = 1
  /\ pc' = "jars"
  /\ UNCHANGED <<args, fs, archives, broken, source_files, source_jars, fi,
                 java_file_path, java_file, lineNo, entry, class_to_header_map,
                 openStreams, jarOpens, output_mapping_file>>

\* if args.output_mapping_file: open it, write one line per sorted key, close it.
WriteOutputMappingFile ==
  /\ pc = "jars"
  /\ ji > Len(source_jars)
  /\ output_mapping_file' =
       IF Truthy(args.output_mapping_file)
       THEN [created |-> TRUE,
             writes |-> OutputWrites(sorted(DOMAIN class_to_header_map),
                                     class_to_header_map)]
       ELSE output_mapping_file
  /\ pc' = "done"
  /\ UNCHANGED <<args, fs, archives, broken, source_files, source_jars, fi, ji, ei,
                 java_file_path, java_file, lineNo, entry, class_to_header_map,
                 openStreams, openJars, jarOpens>>

Next ==
  \/ SplitSourceFiles
  \/ OpenSourceFile
  \/ OpenSourceFileFails
  \/ ScanLine
  \/ ReadFails
  \/ FinishSourceFile
  \/ SplitSourceJars
  \/ OpenSourceJar
  \/ OpenSourceJarFails
  \/ NextJarEntry
  \/ FinishJarEntry
  \/ CloseSourceJar
  \/ WriteOutputMappingFile

Spec == Init /\ [][Next]_vars

SpecScan == InitScan /\ [][Next]_vars

\* ========================================================================
\* Properties
\* ========================================================================
Scanning == pc \in {"scanFile", "scanEntry"}

Returned == pc \in {"fileReturned", "entryReturned"}

\* The line the running call returned its entry from, 0 when there is none.
YieldedLine == IF Returned /\ entry # NoEntry THEN lineNo ELSE 0

Min(S) == CHOOSE i \in S : \A j \in S : i <= j

\* Text of the trimmed line before its leftmost candidate declaration.
Before(line) ==
  IF Matches(strip(line)) = {} THEN ""
  ELSE Slice(strip(line), 1, Min(Matches(strip(line))) - 1)

HasCandidate(line) == Matches(strip(line)) # {}

\* The acceptance rule as the specification words it.
AcceptRule(P) ==
  \/ P = ""
  \/ /\ Slice(P, 1, 2) # "//"
     /\ \/ Ch(P, Len(P)) \in Whitespace
        \/ Ch(P, Len(P)) = ";"
        \/ Slice(P, Len(P) - 1, Len(P)) = "*/"

Acceptable(line) == HasCandidate(line) /\ AcceptRule(Before(line))

\* Index of the first acceptable line of a file, 0 when it has none.
FirstAcceptable(lines) ==
  LET ok == {k \in 1..Len(lines) : Acceptable(lines[k])}
  IN IF ok = {} THEN 0 ELSE Min(ok)

\* C6: of the lines the scan has read, exactly those whose leftmost
\* candidate has preceding text P with P empty, or P not starting with //
\* and ending in whitespace, in ; or in */, end the scan with an entry; a
\* declaration right after a closed block comment is among them.
C6_AcceptanceRule ==
  (Scanning \/ Returned) =>
    \A j \in 1..lineNo :
      /\ HasCandidate(java_file[j]) =>
           ((YieldedLine = j) <=> AcceptRule(Before(java_file[j])))
      /\ startswith(strip(java_file[j]), "*/ package") => YieldedLine = j

C6_Witness ==
  /\ Returned
  /\ entry # NoEntry
  /\ Before(java_file[lineNo]) = "*/ "

\* C5: a line whose trimmed text starts with // and holds a package
\* declaration never yields the entry and never ends the scan; when a later
\* line is the first acceptable one, the unit yields that line's entry.
CommentedDeclaration(line) == startswith(strip(line), "//") /\ HasCandidate(line)

C5_CommentLineSkipped ==
  (Scanning \/ Returned) =>
    \A j \in 1..Len(java_file) :
      CommentedDeclaration(java_file[j]) =>
        /\ YieldedLine # j
        /\ (Returned /\ lineNo = j) => (entry = NoEntry /\ j = Len(java_file))
        /\ (Returned /\ FirstAcceptable(java_file) > j) =>
             /\ lineNo = FirstAcceptable(java_file)
             /\ entry = MapEntry(java_file_path, java_file[FirstAcceptable(java_file)])

C5_Witness ==
  /\ Returned
  /\ entry # NoEntry
  /\ lineNo = 2
  /\ CommentedDeclaration(java_file[1])

\* Whether a block comment opened in s is still open at its end.
RECURSIVE InCommentAtEnd(_, _, _)
InCommentAtEnd(s, i, open) ==
  IF i > Len(s) THEN open
  ELSE IF ~ open /\ Slice(s, i, i + 1) = "/*" THEN InCommentAtEnd(s, i + 2, TRUE)
  ELSE IF open /\ Slice(s, i, i + 1) = "*/" THEN InCommentAtEnd(s, i + 2, FALSE)
  ELSE InCommentAtEnd(s, i + 1, open)

Unclosed(P) == InCommentAtEnd(P, 1, FALSE)

IdentifierPrefix(P) == Ch(P, Len(P)) \in WordChars

EndsLikeBoundary(P) ==
  \/ Ch(P, Len(P)) \in Whitespace
  \/ Ch(P, Len(P)) = ";"
  \/ Slice(P, Len(P) - 1, Len(P)) = "*/"

\* C7 as stated: no entry comes from a line whose text before the keyword
\* leaves a block comment open or ends with an identifier character.
C7_Original ==
  (Scanning \/ Returned) =>
    \A j \in 1..lineNo :
      (HasCandidate(java_file[j])
         /\ (Unclosed(Before(java_file[j])) \/ IdentifierPrefix(Before(java_file[j]))))
        => YieldedLine # j

\* C7 amended: no entry comes from a line whose text before the keyword
\* ends with an identifier character, nor from one where that text leaves a
\* block comment open and ends in none of whitespace, ; and */.
C7_Amended ==
  (Scanning \/ Returned) =>
    \A j \in 1..lineNo :
      (HasCandidate(java_file[j])
         /\ \/ IdentifierPrefix(Before(java_file[j]))
            \/ Unclosed(Before(java_file[j])) /\ ~ EndsLikeBoundary(Before(java_file[j])))
        => YieldedLine # j

C7_Witness ==
  /\ Returned
  /\ entry # NoEntry
  /\ lineNo = 2
  /\ HasCandidate(java_file[1])
  /\ Before(java_file[1]) \in {"x", "/*"}

\* C10: when the leftmost candidate of a line fails the rule, the line
\* yields nothing although a later candidate on it would pass on its own;
\* an entry of such a unit comes from a later line.
LaterCandidatePasses(line) ==
  /\ HasCandidate(line)
  /\ ~ AcceptRule(Before(line))
  /\ \E i \in Matches(strip(line)) :
       i > Min(Matches(strip(line))) /\ AcceptRule(Slice(strip(line), 1, i - 1))

C10_LeftmostOnly ==
  (Scanning \/ Returned) =>
    \A j \in 1..lineNo :
      LaterCandidatePasses(java_file[j]) =>
        /\ YieldedLine # j
        /\ (Returned /\ lineNo = j) => entry = NoEntry
        /\ (Returned /\ entry # NoEntry) => lineNo > j

C10_Witness ==
  /\ Returned
  /\ entry # NoEntry
  /\ lineNo = 2
  /\ LaterCandidatePasses(java_file[1])

\* C3: an entry returned for a line accepted with namespace N is
\* (N . file name without extension, identifier with the extension replaced
\* by .h); for a jar member the identifier is the member name verbatim and
\* the header path does not contain the jar's path.
Contains(s, sub) == \E i \in 1..Len(s) : Slice(s, i, i + Len(sub) - 1) = sub

\* Part of a path after its last separator.
FileNameOf(s) ==
  LET k == CHOOSE i \in 0..Len(s) :
             /\ i = 0 \/ Ch(s, i) = "/"
             /\ ~ Contains(Slice(s, i + 1, Len(s)), "/")
  IN Slice(s, k + 1, Len(s))

\* id splits after n characters into stem and extension: the extension is
\* a dot followed by characters that are neither dot nor separator, and the
\* file name before it is not made of dots alone.
ExtensionAt(id, n) ==
  /\ Ch(id, n + 1) = "."
  /\ ~ Contains(Slice(id, n + 2, Len(id)), ".")
  /\ ~ Contains(Slice(id, n + 1, Len(id)), "/")
  /\ \E k \in 1..Len(FileNameOf(Slice(id, 1, n))) : Ch(FileNameOf(Slice(id, 1, n)), k) # "."

StemLength(id) ==
  IF \E n \in 0..Len(id) : ExtensionAt(id, n)
  THEN CHOOSE n \in 0..Len(id) : ExtensionAt(id, n)
  ELSE Len(id)

NamespaceOf(line) ==
  Group2(strip(line), Min(Matches(strip(line))))

C3_EntryShape ==
  (Returned /\ entry # NoEntry) =>
    /\ entry[1] = NamespaceOf(java_file[lineNo]) \o "."
                    \o FileNameOf(Slice(java_file_path, 1, StemLength(java_file_path)))
    /\ entry[2] = Slice(java_file_path, 1, StemLength(java_file_path)) \o ".h"
    /\ pc = "fileReturned" => java_file_path = source_files[fi]
    /\ pc = "entryReturned" =>
         /\ java_file_path = archives[source_jars[ji]][ei].name
         /\ ~ Contains(entry[2], source_jars[ji])

C3_Witness ==
  /\ pc = "entryReturned"
  /\ source_jars[ji] = "s.jar"
  /\ entry = <<"a.b.Entry", "pkg/Entry.h">>

\* C4: finishing a unit changes at most one key of the table; with no
\* acceptable line the table is unchanged, every line was read and the run
\* goes on with the next unit; otherwise exactly the lines up to the first
\* acceptable one were read and its entry is the one stored.  No other
\* step changes the table.
ChangedKeys(d1, d2) ==
  {k \in (DOMAIN d1) \cup (DOMAIN d2) :
     k \notin DOMAIN d1 \/ k \notin DOMAIN d2 \/ d1[k] # d2[k]}

C4_UnitStep ==
  /\ Cardinality(ChangedKeys(class_to_header_map, class_to_header_map')) <= 1
  /\ ~ Returned => class_to_header_map' = class_to_header_map
  /\ Returned =>
       IF FirstAcceptable(java_file) = 0
       THEN /\ lineNo = Len(java_file)
            /\ class_to_header_map' = class_to_header_map
            /\ pc' \in {"files", "namelist"}
       ELSE /\ lineNo = FirstAcceptable(java_file)
            /\ entry = MapEntry(java_file_path, java_file[FirstAcceptable(java_file)])
            /\ entry[1] \in DOMAIN class_to_header_map'
            /\ class_to_header_map'[entry[1]] = entry[2]
            /\ pc' \in {"files", "namelist"}

C4_OneEntryPerUnit == [][C4_UnitStep]_vars

C4_Witness ==
  /\ Returned
  /\ entry # NoEntry
  /\ lineNo < Len(java_file)
  /\ Acceptable(java_file[lineNo + 1])

\* ------------------------------------------------------------------------
\* Properties of the whole run
\* ------------------------------------------------------------------------
ListedFiles == IF Truthy(args.source_files) THEN split(args.source_files) ELSE <<>>

ListedJars == IF Truthy(args.source_jars) THEN split(args.source_jars) ELSE <<>>

\* The .java members of a jar, in namelist order.
RECURSIVE JavaMembers(_)
JavaMembers(members) ==
  IF members = <<>> THEN <<>>
  ELSE (IF endswith(Head(members).name, ".java")
        THEN <<[id |-> Head(members).name, lines |-> Head(members).lines]>>
        ELSE <<>>)
       \o JavaMembers(Tail(members))

RECURSIVE JarUnits(_)
JarUnits(jars) ==
  IF jars = <<>> THEN <<>>
  ELSE JavaMembers(archives[Head(jars)]) \o JarUnits(Tail(jars))

\* Every unit of the run in processing order: the loose files as listed,
\* then the members of the jars as listed.
Units ==
  [i \in 1..Len(ListedFiles) |-> [id |-> ListedFiles[i], lines |-> fs[ListedFiles[i]]]]
    \o JarUnits(ListedJars)

\* What a unit contributes: the entry of its first acceptable line.
UnitEntry(u) ==
  IF FirstAcceptable(u.lines) = 0 THEN NoEntry
  ELSE MapEntry(u.id, u.lines[FirstAcceptable(u.lines)])

Yielding(k) == {i \in 1..Len(Units) : UnitEntry(Units[i]) # NoEntry /\ UnitEntry(Units[i])[1] = k}

Max(S) == CHOOSE i \in S : \A j \in S : j <= i

UnitKeys == {UnitEntry(Units[i])[1] : i \in {j \in 1..Len(Units) : UnitEntry(Units[j]) # NoEntry}}

\* C2: at the end of the run the table has exactly the keys some unit
\* yields, one entry each, and the value of a key is the header path of the
\* last unit yielding it in processing order (loose files as listed, then
\* jars as listed, members in archive order).
C2_LastWriteWins ==
  pc = "done" =>
    /\ DOMAIN class_to_header_map = UnitKeys
    /\ \A k \in UnitKeys :
         class_to_header_map[k] = UnitEntry(Units[Max(Yielding(k))])[2]

C2_Witness ==
  /\ pc = "done"
  /\ \E k \in UnitKeys :
       \E i \in Yielding(k) :
         /\ i <= Len(ListedFiles)
         /\ Max(Yielding(k)) > Len(ListedFiles)
         /\ UnitEntry(Units[i])[2] # class_to_header_map[k]

\* C1: when an output path is configured and the run completes, the file
\* holds exactly one line key=value\n per key of the table, nothing else,
\* in strictly ascending key order.
LineOf(k) == k \o "=" \o class_to_header_map[k] \o "\n"

C1_SortedOutput ==
  (pc = "done" /\ Truthy(args.output_mapping_file)) =>
    /\ output_mapping_file.created
    /\ Len(output_mapping_file.writes) = Cardinality(DOMAIN class_to_header_map)
    /\ \A k \in DOMAIN class_to_header_map :
         \E i \in 1..Len(output_mapping_file.writes) : output_mapping_file.writes[i] = LineOf(k)
    /\ \A i \in 1..Len(output_mapping_file.writes) :
         \E k \in DOMAIN class_to_header_map : output_mapping_file.writes[i] = LineOf(k)
    /\ \A i, j \in 1..Len(output_mapping_file.writes) :
         i < j =>
           \E k1, k2 \in DOMAIN class_to_header_map :
             /\ output_mapping_file.writes[i] = LineOf(k1)
             /\ output_mapping_file.writes[j] = LineOf(k2)
             /\ StrLess(k1, k2)

C1_Witness ==
  /\ pc = "done"
  /\ Len(output_mapping_file.writes) = 3
  /\ Len(ListedFiles) = 2
  /\ Len(ListedJars) = 2

\* C8: the output file exists only once every listed file and jar has been
\* processed; a run with an input that fails to open or to read never
\* advances past that input, never completes and never creates the output;
\* a run aborts for no other reason.
FirstIndex(seq, x) == Min({i \in 1..Len(seq) : seq[i] = x})

HasJavaMember(jar) == JavaMembers(archives[jar]) # <<>>

FailsOnFile == broken.kind # "none" /\ broken.target \in Range(ListedFiles)

FailsOnJar ==
  /\ broken.kind # "none"
  /\ broken.target \in Range(ListedJars)
  /\ broken.kind = "read" => HasJavaMember(broken.target)

InJarPhase == pc \in {"jars", "namelist", "scanEntry", "entryReturned", "done"}

C8_NoPartialOutput ==
  /\ output_mapping_file.created =>
       /\ pc = "done"
       /\ fi = Len(ListedFiles) + 1
       /\ ji = Len(ListedJars) + 1
       /\ ~ FailsOnFile /\ ~ FailsOnJar
  /\ (FailsOnFile \/ FailsOnJar) =>
       /\ pc # "done"
       /\ ~ output_mapping_file.created
       /\ output_mapping_file.writes = <<>>
  /\ FailsOnFile =>
       /\ fi <= FirstIndex(ListedFiles, broken.target)
       /\ ~ InJarPhase
  /\ (FailsOnJar /\ ~ FailsOnFile) => ji <= FirstIndex(ListedJars, broken.target)
  /\ pc = "aborted" => (FailsOnFile \/ FailsOnJar)

C8_Witness ==
  /\ pc = "aborted"
  /\ class_to_header_map # EmptyDict
  /\ ji = 2
  /\ ~ output_mapping_file.created

\* C9: at most one content stream and at most one jar handle are open at
\* any time; between units no stream is open, between jars no jar is open,
\* nothing is open once the run has ended or the output exists; every
\* listed jar is opened at most once, and exactly once when the run is past it.
C9_ScopedHandles ==
  /\ Cardinality(openStreams) <= 1
  /\ Cardinality(openJars) <= 1
  /\ pc \in {"start", "files", "jars", "namelist", "done", "aborted"} => openStreams = {}
  /\ pc \in {"start", "files", "jars", "done", "aborted"} => openJars = {}
  /\ pc \in {"scanFile", "fileReturned"} => openStreams = {<<"file", fi>>} /\ openJars = {}
  /\ pc \in {"scanEntry", "entryReturned"} =>
       openStreams = {<<"entry", ji, ei>>} /\ openJars = {ji}
  /\ pc = "namelist" => openJars = {ji}
  /\ output_mapping_file.created => openStreams = {} /\ openJars = {}
  /\ \A i \in DOMAIN jarOpens :
       /\ jarOpens[i] <= 1
       /\ (i < ji \/ i \in openJars) => jarOpens[i] = 1
       /\ (i > ji) => jarOpens[i] = 0
  /\ pc = "done" => \A i \in 1..Len(ListedJars) : jarOpens[i] = 1

C9_Witness ==
  /\ pc = "scanEntry"
  /\ ji = 2
  /\ ei = 3
  /\ fi = 3
  /\ openStreams = {<<"entry", 2, 3>>}
  /\ openJars = {2}
  /\ jarOpens = <<1, 1>>

====
